---- MODULE Spec2Model ----
(***************************************************************************)
(* TCP Emitter server: the connection gate (handleSocket), the per-client  *)
(* frame decoder and validator (parseData), the dispatcher (parsePayload)  *)
(* and the subscription registry with its fan-out (subscribe, unsubscribe, *)
(* broadcast), modelled from src/src/tcp-emitter.js and the client module. *)
(*                                                                         *)
(* Text is a sequence of symbols.  A symbol is one TLA+ string: either a   *)
(* single character ("{", "@", "a", "1") or a whole lexeme that the server *)
(* never looks inside ("type", "subscribe", "true").  A JavaScript string  *)
(* is the sequence of its symbols; a JavaScript value is a one-field       *)
(* record whose field name is its type tag.                                *)
(***************************************************************************)
EXTENDS Integers, Sequences, FiniteSets, TLC

VARIABLES
  verifyClient,   \* opts.verifyClient as given to handleSocket
  delimiter,      \* tcpEmitter.delimiter
  subscriptions,  \* tcpEmitter.subscriptions: event name -> list of clients
  clientSubs,     \* per socket: tcpEmitterClient.subscriptions
  pc,             \* per socket: position of the async connection listener
  result,         \* per socket: what verifyClient(socket) yielded
  wired,          \* per socket: setupSocket has run
  ended,          \* per socket: the server called socket.end()
  closed,         \* per socket: the 'close' event has fired
  microtasks,     \* continuations queued behind an `await`, in order
  calls,          \* broadcast() invocations of the last handler, in order
  removed,        \* listeners the last handler spliced out: <<socket, event>>
  threw,          \* the last handler ended with an uncaught exception
  serverEvents,   \* events the last handler emitted to the server's listeners
  dropped,        \* per socket: what its last chunk held after the last
                  \* delimiter, which parseData discarded
  input,          \* the chunk handed to a client instance used on its own
  candidates,     \* that instance: payloadsStr, the strings parseData kept
  parsedValues,   \* that instance: the values utils.parseJSON returned
  emitted,        \* that instance: the payloads emitted to the payload event
  writeFails      \* per socket: whether a write to it fails, and how:
                  \* "no"; "throw", the 'error' event is emitted inside
                  \* write; "event", it is emitted later; "emitting", it
                  \* is about to be emitted; "errored", it has been

\* A client instance used on its own, with a listener that collects what
\* the payload event carries.
clientVars == <<input, candidates, parsedValues, emitted>>

vars == <<verifyClient, delimiter, subscriptions, clientSubs, pc, result,
          wired, ended, closed, microtasks, calls, removed, threw,
          serverEvents, dropped, input, candidates, parsedValues,
          emitted, writeFails>>

(***************************************************************************)
(* Bounds of the model.                                                    *)
(***************************************************************************)
\* number of sockets the server accepts
MaxSockets == 2
\* longest list of listeners of one event that is explored
MaxListeners == 2
\* most payloads in one chunk handed to a client instance used on its own
MaxFrames == 2

Sockets == 1..MaxSockets

(***************************************************************************)
(* JavaScript values.                                                      *)
(***************************************************************************)
Str(x) == [s |-> x]
Num(x) == [n |-> x]
Bool(x) == [b |-> x]
Null == [z |-> 0]
Undefined == [u |-> 0]
Arr(x) == [a |-> x]
Obj(x) == [o |-> x]

IsStr(v) == DOMAIN v = {"s"}
IsNum(v) == DOMAIN v = {"n"}
IsBool(v) == DOMAIN v = {"b"}
IsNull(v) == DOMAIN v = {"z"}
IsUndefined(v) == DOMAIN v = {"u"}
IsArr(v) == DOMAIN v = {"a"}
IsObj(v) == DOMAIN v = {"o"}

Quote == "\""
Backslash == "\\"
Digits == {"0", "1", "2"}

\* Position of the first property named k in the property list, 0 if none.
RECURSIVE KeyIndex(_, _, _)
KeyIndex(props, k, i) ==
  IF i > Len(props) THEN 0
  ELSE IF props[i][1] = k THEN i
  ELSE KeyIndex(props, k, i + 1)

\* obj[k] = v on a plain object: a repeated key keeps its place.
SetProp(props, k, v) ==
  LET i == KeyIndex(props, k, 1)
  IN IF i = 0 THEN Append(props, <<k, v>>)
     ELSE [props EXCEPT ![i] = <<k, v>>]

\* value.k for k one of type, event, args.  Reading a property of null
\* throws; primitives and arrays have no such property.
GetProp(v, k) ==
  IF IsObj(v) /\ KeyIndex(v.o, k, 1) # 0
  THEN v.o[KeyIndex(v.o, k, 1)][2]
  ELSE Undefined

(***************************************************************************)
(* JSON.stringify.                                                         *)
(***************************************************************************)
RECURSIVE EscapeStr(_)
EscapeStr(x) ==
  IF x = <<>> THEN <<>>
  ELSE (IF Head(x) \in {Quote, Backslash}
        THEN <<Backslash, Head(x)>> ELSE <<Head(x)>>) \o EscapeStr(Tail(x))

RECURSIVE Stringify(_), StringifyItems(_), StringifyProps(_, _)
Stringify(v) ==
  CASE IsStr(v) -> <<Quote>> \o EscapeStr(v.s) \o <<Quote>>
    [] IsNum(v) -> v.n
    [] IsBool(v) -> IF v.b THEN <<"true">> ELSE <<"false">>
    [] IsNull(v) -> <<"null">>
    [] IsUndefined(v) -> <<"null">>
    [] IsArr(v) -> <<"[">> \o StringifyItems(v.a) \o <<"]">>
    [] IsObj(v) -> <<"{">> \o StringifyProps(v.o, TRUE) \o <<"}">>

StringifyItems(xs) ==
  IF xs = <<>> THEN <<>>
  ELSE Stringify(Head(xs))
       \o (IF Len(xs) > 1 THEN <<",">> ELSE <<>>)
       \o StringifyItems(Tail(xs))

\* A property whose value is undefined is left out of the text.
StringifyProps(props, first) ==
  IF props = <<>> THEN <<>>
  ELSE IF IsUndefined(Head(props)[2])
  THEN StringifyProps(Tail(props), first)
  ELSE (IF first THEN <<>> ELSE <<",">>)
       \o <<Quote>> \o EscapeStr(Head(props)[1]) \o <<Quote, ":">>
       \o Stringify(Head(props)[2])
       \o StringifyProps(Tail(props), FALSE)

(***************************************************************************)
(* JSON.parse.  A parse result is [ok, v, i]: whether a value was read,    *)
(* the value, and the position after it.                                   *)
(***************************************************************************)
Fail(i) == [ok |-> FALSE, v |-> Undefined, i |-> i]
Ok(v, i) == [ok |-> TRUE, v |-> v, i |-> i]
At(t, i) == IF i >= 1 /\ i <= Len(t) THEN t[i] ELSE "<end>"

\* The characters that the \u escapes of the model stand for.
CodeUnits == [u0021 |-> "!", u0040 |-> "@"]

\* The body of a string literal, from the symbol after its opening quote.
RECURSIVE ScanString(_, _, _)
ScanString(t, i, acc) ==
  IF i > Len(t) THEN Fail(i)
  ELSE IF t[i] = Quote THEN Ok(Str(acc), i + 1)
  ELSE IF t[i] = Backslash
  THEN IF At(t, i + 1) \in {Quote, Backslash}
       THEN ScanString(t, i + 2, Append(acc, t[i + 1]))
       ELSE IF At(t, i + 1) \in DOMAIN CodeUnits
       THEN ScanString(t, i + 2, Append(acc, CodeUnits[t[i + 1]]))
       ELSE Fail(i)
  ELSE ScanString(t, i + 1, Append(acc, t[i]))

RECURSIVE DigitsEnd(_, _)
DigitsEnd(t, i) ==
  IF At(t, i) \in Digits THEN DigitsEnd(t, i + 1) ELSE i

\* A number is a run of digits without a leading zero.
ScanNumber(t, i) ==
  LET j == DigitsEnd(t, i)
  IN IF j - i > 1 /\ t[i] = "0" THEN Fail(i)
     ELSE Ok(Num(SubSeq(t, i, j - 1)), j)

RECURSIVE ParseValue(_, _), ParseItems(_, _, _), ParseProps(_, _, _)
ParseValue(t, i) ==
  IF i > Len(t) THEN Fail(i)
  ELSE CASE t[i] = Quote -> ScanString(t, i + 1, <<>>)
         [] t[i] \in Digits -> ScanNumber(t, i)
         [] t[i] = "true" -> Ok(Bool(TRUE), i + 1)
         [] t[i] = "false" -> Ok(Bool(FALSE), i + 1)
         [] t[i] = "null" -> Ok(Null, i + 1)
         [] t[i] = "[" -> IF At(t, i + 1) = "]" THEN Ok(Arr(<<>>), i + 2)
                          ELSE ParseItems(t, i + 1, <<>>)
         [] t[i] = "{" -> IF At(t, i + 1) = "}" THEN Ok(Obj(<<>>), i + 2)
                          ELSE ParseProps(t, i + 1, <<>>)
         [] OTHER -> Fail(i)

ParseItems(t, i, acc) ==
  LET r == ParseValue(t, i)
  IN IF ~r.ok THEN Fail(i)
     ELSE IF At(t, r.i) = "," THEN ParseItems(t, r.i + 1, Append(acc, r.v))
     ELSE IF At(t, r.i) = "]" THEN Ok(Arr(Append(acc, r.v)), r.i + 1)
     ELSE Fail(r.i)

ParseProps(t, i, acc) ==
  IF At(t, i) # Quote THEN Fail(i)
  ELSE LET k == ScanString(t, i + 1, <<>>)
       IN IF ~k.ok \/ At(t, k.i) # ":" THEN Fail(i)
          ELSE LET r == ParseValue(t, k.i + 1)
               IN IF ~r.ok THEN Fail(i)
                  ELSE IF At(t, r.i) = ","
                  THEN ParseProps(t, r.i + 1, SetProp(acc, k.v.s, r.v))
                  ELSE IF At(t, r.i) = "}"
                  THEN Ok(Obj(SetProp(acc, k.v.s, r.v)), r.i + 1)
                  ELSE Fail(r.i)

\* JSON.parse(str): ok is FALSE where it throws a SyntaxError.
JSONParse(str) ==
  LET r == ParseValue(str, 1)
  IN IF r.ok /\ r.i = Len(str) + 1 THEN r ELSE Fail(1)

\* utils.parseJSON: the parsed value, or {} when JSON.parse throws.
parseJSON(str) ==
  IF JSONParse(str).ok THEN JSONParse(str).v ELSE Obj(<<>>)

(***************************************************************************)
(* String.prototype.split.                                                 *)
(***************************************************************************)
OccursAt(t, d, i) ==
  /\ i + Len(d) - 1 <= Len(t)
  /\ SubSeq(t, i, i + Len(d) - 1) = d

\* i scans for the separator; from is where the current piece starts.
RECURSIVE SplitFrom(_, _, _, _)
SplitFrom(t, d, i, from) ==
  IF i > Len(t) THEN <<SubSeq(t, from, Len(t))>>
  ELSE IF OccursAt(t, d, i)
  THEN <<SubSeq(t, from, i - 1)>>
       \o SplitFrom(t, d, i + Len(d), i + Len(d))
  ELSE SplitFrom(t, d, i + 1, from)

\* The characters of the symbols that stand for a whole word.
Spelling ==
  [type |-> <<"t", "y", "p", "e">>,
   event |-> <<"e", "v", "e", "n", "t">>,
   args |-> <<"a", "r", "g", "s">>,
   subscribe |-> <<"s", "u", "b", "s", "c", "r", "i", "b", "e">>,
   unsubscribe |-> <<"u", "n", "s", "u", "b", "s", "c", "r", "i", "b", "e">>,
   broadcast |-> <<"b", "r", "o", "a", "d", "c", "a", "s", "t">>,
   ping |-> <<"p", "i", "n", "g">>,
   constructor |-> <<"c", "o", "n", "s", "t", "r", "u", "c", "t", "o", "r">>,
   true |-> <<"t", "r", "u", "e">>,
   false |-> <<"f", "a", "l", "s", "e">>,
   null |-> <<"n", "u", "l", "l">>,
   u0021 |-> <<"u", "0", "0", "2", "1">>,
   u0040 |-> <<"u", "0", "0", "4", "0">>]

RECURSIVE Characters(_)
Characters(t) ==
  IF t = <<>> THEN <<>>
  ELSE (IF Head(t) \in DOMAIN Spelling THEN Spelling[Head(t)]
        ELSE <<Head(t)>>) \o Characters(Tail(t))

\* Variant of split that leaves the empty strings out of its result.
splitOmitEmpty(t, d) ==
  SelectSeq(IF d = <<>>
            THEN [i \in 1..Len(Characters(t)) |-> <<Characters(t)[i]>>]
            ELSE SplitFrom(t, d, 1, 1),
            LAMBDA piece : piece # <<>>)

\* An empty separator splits the text into its single characters.
split(t, d) ==
  IF d = <<>> THEN [i \in 1..Len(Characters(t)) |-> <<Characters(t)[i]>>]
  ELSE SplitFrom(t, d, 1, 1)

(***************************************************************************)
(* Array helpers with their JavaScript meaning (positions count from 0).   *)
(***************************************************************************)
RECURSIVE IndexFrom(_, _, _)
IndexFrom(xs, x, i) ==
  IF i > Len(xs) THEN -1
  ELSE IF xs[i] = x THEN i - 1
  ELSE IndexFrom(xs, x, i + 1)

\* xs.indexOf(x): position of the first occurrence, -1 if none.
indexOf(xs, x) == IndexFrom(xs, x, 1)

\* Variant of splice without its second argument: xs.splice(pos) removes
\* everything from position pos on.
spliceToEnd(xs, pos) == SubSeq(xs, 1, pos)

\* xs.splice(pos, 1): xs without the element at position pos.
splice(xs, pos) == SubSeq(xs, 1, pos) \o SubSeq(xs, pos + 2, Len(xs))

Range(xs) == {xs[i] : i \in 1..Len(xs)}

(***************************************************************************)
(* The registry.  Handlers are operators on a record                       *)
(*   [subscriptions, clientSubs, calls, removed, threw, events]            *)
(* so that one event handler can run several of them in a row.             *)
(* events is what the handlers emit on the TCP Emitter object, which        *)
(* index.js forwards to the server: subscribe, unsubscribe and broadcast   *)
(* contain no call of emit, so no handler adds to it.                      *)
(***************************************************************************)
\* tcpEmitter.subscriptions is a plain object ({}), so the names of
\* Object.prototype are found by `in` and by a property read although the
\* registry never stored them.
ProtoKeys == {<<"constructor">>}

\* event in this.subscriptions
HasKey(subs, event) == event \in DOMAIN subs \/ event \in ProtoKeys

\* subs[event] = list, creating the key when it is new.
SetKey(subs, event, list) ==
  [e \in DOMAIN subs \cup {event} |-> IF e = event THEN list ELSE subs[e]]

\* delete subs[event]
DeleteKey(subs, event) ==
  [e \in DOMAIN subs \ {event} |-> subs[e]]

\* The text written to one listener of a broadcast.
OutboundFrame(event, args, d) ==
  Stringify(Obj(<< <<(<<"event">>), Str(event)>>,
                   <<(<<"args">>), args>> >>)) \o d

subscribe(st, socket, event) ==
  LET mine == st.clientSubs[socket]
      st1 == IF indexOf(mine, event) = -1
             THEN [st EXCEPT !.clientSubs[socket] = Append(mine, event)]
             ELSE st
  IN IF event \in DOMAIN st1.subscriptions
     THEN [st1 EXCEPT !.subscriptions[event] = Append(@, socket)]
     ELSE IF HasKey(st1.subscriptions, event)
     \* the inherited value has no push: TypeError
     THEN [st1 EXCEPT !.threw = TRUE]
     ELSE [st1 EXCEPT !.subscriptions = SetKey(@, event, <<socket>>)]

\* Variant of Prune that keeps the entry of an emptied list.
PruneNever(st, event) == st

\* if (listeners.length === 0) delete this.subscriptions[event]
Prune(st, event) ==
  IF Len(st.subscriptions[event]) = 0
  THEN [st EXCEPT !.subscriptions = DeleteKey(@, event)]
  ELSE st

unsubscribe(st, socket, event) ==
  LET mine == st.clientSubs[socket]
      subPosition == indexOf(mine, event)
      st1 == IF subPosition # -1
             THEN [st EXCEPT !.clientSubs[socket] = splice(mine, subPosition)]
             ELSE st
  IN IF ~HasKey(st1.subscriptions, event) THEN st1
     ELSE IF event \notin DOMAIN st1.subscriptions
     \* the inherited value has no indexOf: TypeError
     THEN [st1 EXCEPT !.threw = TRUE]
     ELSE LET listeners == st1.subscriptions[event]
              socketPosition == indexOf(listeners, socket)
              st2 == [st1 EXCEPT !.removed = Append(@, <<socket, event>>)]
          IN IF socketPosition = -1 THEN st1
             ELSE Prune([st2 EXCEPT !.subscriptions[event] =
                                      splice(listeners, socketPosition)],
                        event)

\* Variant of IsRecipient without the check for the sender.
IsRecipientAny(listener, socket) == TRUE

\* Whether broadcast writes to this listener.
IsRecipient(listener, socket) == listener # socket

\* The writes of one broadcast, in the order of the listeners.  A write
\* that throws ends the forEach, since nothing catches it.
RECURSIVE FanOut(_, _, _)
FanOut(listeners, socket, text) ==
  IF listeners = <<>> THEN <<>>
  ELSE IF ~IsRecipient(Head(listeners), socket)
  THEN FanOut(Tail(listeners), socket, text)
  ELSE LET write == [to |-> Head(listeners), text |-> text,
                     failed |-> writeFails[Head(listeners)]]
       IN IF write.failed = "throw" THEN <<write>>
          ELSE <<write>> \o FanOut(Tail(listeners), socket, text)

\* Whether the last of these writes threw.
Thrown(writes) ==
  writes # <<>> /\ writes[Len(writes)].failed = "throw"

\* Variant of broadcast that skips the sender by taking it out of the list
\* it iterates, which is the list the registry holds.
broadcastSplicing(st, socket, event, args, d) ==
  IF event \notin DOMAIN st.subscriptions THEN st
  ELSE LET listeners == st.subscriptions[event]
           others == SelectSeq(listeners, LAMBDA l : l # socket)
       IN [st EXCEPT !.subscriptions[event] = others,
                     !.calls = Append(@,
             [socket |-> socket, event |-> event, args |-> args,
              listeners |-> listeners,
              subscribers |-> {c \in Sockets :
                                 indexOf(st.clientSubs[c], event) # -1},
              writes |-> FanOut(others, socket,
                                OutboundFrame(event, args, d))])]

\* Variant of broadcast that keeps the sender from being written to by
\* unsubscribing it from the event first.
broadcastUnsubscribing(st, socket, event, args, d) ==
  LET st1 == unsubscribe(st, socket, event)
  IN IF event \notin DOMAIN st1.subscriptions THEN st1
     ELSE LET listeners == st1.subscriptions[event]
          IN [st1 EXCEPT !.calls = Append(@,
                [socket |-> socket, event |-> event, args |-> args,
                 listeners |-> listeners,
                 subscribers |-> {c \in Sockets :
                                    indexOf(st1.clientSubs[c], event) # -1},
                 writes |-> FanOut(listeners, socket,
                                   OutboundFrame(event, args, d))])]

broadcast(st, socket, event, args, d) ==
  IF ~HasKey(st.subscriptions, event) THEN st
  ELSE IF event \notin DOMAIN st.subscriptions
  \* the inherited value has no forEach: TypeError
  THEN [st EXCEPT !.threw = TRUE]
  ELSE LET listeners == st.subscriptions[event]
           writes == FanOut(listeners, socket, OutboundFrame(event, args, d))
       IN [st EXCEPT !.calls = Append(@,
             [socket |-> socket, event |-> event, args |-> args,
              listeners |-> listeners,
              subscribers |-> {c \in Sockets :
                                 indexOf(st.clientSubs[c], event) # -1},
              writes |-> writes]),
                     !.threw = Thrown(writes)]

\* Variant of parsePayload with a default case that subscribes.
parsePayloadDefault(st, payload, socket, d) ==
  LET type == GetProp(payload, <<"type">>).s
      event == GetProp(payload, <<"event">>).s
  IN CASE type = <<"broadcast">> ->
            broadcast(st, socket, event, GetProp(payload, <<"args">>), d)
       [] type = <<"unsubscribe">> -> unsubscribe(st, socket, event)
       [] OTHER -> subscribe(st, socket, event)

\* Variant of parsePayload whose broadcast case does not return, so that a
\* broadcast falls through to the subscribe case below it.
parsePayloadFallThrough(st, payload, socket, d) ==
  LET type == GetProp(payload, <<"type">>).s
      event == GetProp(payload, <<"event">>).s
  IN CASE type = <<"broadcast">> ->
            subscribe(
              broadcast(st, socket, event, GetProp(payload, <<"args">>), d),
              socket, event)
       [] type = <<"subscribe">> -> subscribe(st, socket, event)
       [] type = <<"unsubscribe">> -> unsubscribe(st, socket, event)
       [] OTHER -> st

parsePayload(st, payload, socket, d) ==
  LET type == GetProp(payload, <<"type">>).s
      event == GetProp(payload, <<"event">>).s
  IN CASE type = <<"broadcast">> ->
            broadcast(st, socket, event, GetProp(payload, <<"args">>), d)
       [] type = <<"subscribe">> -> subscribe(st, socket, event)
       [] type = <<"unsubscribe">> -> unsubscribe(st, socket, event)
       [] OTHER -> st

(***************************************************************************)
(* Inputs: the options given at construction, what the verifyClient        *)
(* callback yields, and the chunks clients send.                           *)
(***************************************************************************)
Function == [f |-> 0]
IsFunction(v) == DOMAIN v = {"f"}

\* opts.verifyClient: omitted, a string, or a function
VerifyClientOpts == {Undefined, Str(<<"x">>), Function}

\* opts.delimiter: omitted, a string, or the empty string
DelimiterOpts == {Undefined, Str(<<"!">>), Str(<<>>)}

\* What one call of a verifyClient function does.
Yields ==
  {[kind |-> "return", v |-> Bool(TRUE)],
   [kind |-> "return", v |-> Str(<<"x">>)],
   [kind |-> "throw", v |-> Undefined],
   [kind |-> "promise", v |-> Undefined]}

\* How a promise returned by verifyClient settles.
Settlements ==
  {[kind |-> "resolve", v |-> Bool(TRUE)],
   [kind |-> "resolve", v |-> Str(<<"x">>)],
   [kind |-> "reject", v |-> Undefined]}

NoResult == [kind |-> "none", v |-> Undefined]

EvA == <<"a">>
EvB == <<"b">>
EvProto == <<"constructor">>

Payload(type, event) ==
  Obj(<< <<(<<"type">>), Str(<<type>>)>>, <<(<<"event">>), Str(event)>> >>)

BroadcastPayload(event, args) ==
  Obj(<< <<(<<"type">>), Str(<<"broadcast">>)>>,
         <<(<<"event">>), Str(event)>>,
         <<(<<"args">>), args>> >>)

Args1 == Arr(<<Num(<<"1">>)>>)
Args2 == Arr(<<Str(<<"x">>), Bool(TRUE), Obj(<< <<(<<"k">>), Null>> >>)>>)

\* One payload as a client sends it: its JSON text and the delimiter d.
Frame(payload, d) == Stringify(payload) \o d

\* Chunks that subscribe, unsubscribe and broadcast.
RegistryChunks(d) ==
  {Frame(Payload("subscribe", EvA), d),
   Frame(Payload("subscribe", EvB), d),
   Frame(Payload("unsubscribe", EvA), d),
   Frame(Payload("unsubscribe", EvB), d),
   Frame(BroadcastPayload(EvA, Args2), d)}

\* Chunks that are not a registry operation, or not only one.
OtherChunks(d) ==
  {Frame(Payload("subscribe", EvA), d)
     \o Frame(Payload("unsubscribe", EvB), d)
     \o Frame(BroadcastPayload(EvB, Args1), d),
   Frame(Payload("subscribe", EvProto), d),
   Frame(Payload("ping", EvA), d),
   Frame(Obj(<< <<(<<"event">>), Str(EvA)>> >>), d),
   <<"null">> \o d,
   <<"a">> \o d,
   Stringify(Payload("subscribe", EvA))}

\* Chunks whose only candidate is not a valid payload.
InvalidChunks(d) ==
  {Frame(Obj(<< <<(<<"event">>), Str(EvA)>> >>), d),
   Frame(Obj(<< <<(<<"type">>), Str(<<"subscribe">>)>>,
                <<(<<"event">>), Num(<<"1">>)>> >>), d),
   <<"null">> \o d,
   <<"a">> \o d}

\* A subscribe payload for event b cut in two where a TCP segment may end.
HeadOf(text) == SubSeq(text, 1, Len(text) \div 2)
TailOf(text) == SubSeq(text, Len(text) \div 2 + 1, Len(text))

\* What a client writes when its payloads do not end with its writes: a
\* complete payload followed by the head of the next one, then the tail of
\* that one followed by the start of something else.
FragmentChunks(d) ==
  {Frame(Payload("subscribe", EvA), d)
     \o HeadOf(Stringify(Payload("subscribe", EvB))),
   TailOf(Stringify(Payload("subscribe", EvB))) \o d \o <<"z">>}

\* A valid subscribe payload that follows the candidate null in its chunk.
NullFirst(d) == <<"null">> \o d \o Frame(Payload("subscribe", EvA), d)

\* The chunks sent while decoding and validation are explored.
FrameChunks(d) ==
  InvalidChunks(d) \cup FragmentChunks(d)
    \cup {NullFirst(d),
          Frame(Payload("unsubscribe", EvA), d),
          Frame(BroadcastPayload(EvA, Args1), d),
          Stringify(Payload("subscribe", EvA))}

\* The few chunks sent while the connection gate is explored.
GateChunks(d) ==
  {Frame(Payload("subscribe", EvA), d),
   Frame(BroadcastPayload(EvA, Args1), d),
   Frame(Payload("broadcast", EvA), d)}

\* Transmissions of several payloads whose outcome depends on the order in
\* which they are applied.
SubThenUnsub(d) ==
  Frame(Payload("subscribe", EvA), d) \o Frame(Payload("unsubscribe", EvA), d)

UnsubThenSub(d) ==
  Frame(Payload("unsubscribe", EvA), d) \o Frame(Payload("subscribe", EvA), d)

TwoBroadcasts(d) ==
  Frame(BroadcastPayload(EvA, Args1), d)
    \o Frame(BroadcastPayload(EvA, Args2), d)

\* The transmission of the README: subscribe, unsubscribe, broadcast.
ThreeOperations(d) ==
  Frame(Payload("subscribe", EvA), d)
    \o Frame(Payload("unsubscribe", EvB), d)
    \o Frame(BroadcastPayload(EvA, Args1), d)

OrderChunks(d) ==
  {SubThenUnsub(d), UnsubThenSub(d), TwoBroadcasts(d), ThreeOperations(d)}

\* Payloads for an event with listeners, for one without, and for one whose
\* name is a property of Object.prototype.
NameChunks(d) ==
  {Frame(Payload("subscribe", EvA), d),
   Frame(Payload("unsubscribe", EvA), d),
   Frame(BroadcastPayload(EvA, Args1), d),
   Frame(BroadcastPayload(EvB, Args1), d),
   Frame(Payload("subscribe", EvProto), d),
   Frame(Payload("unsubscribe", EvProto), d),
   Frame(BroadcastPayload(EvProto, Args1), d)}

\* A valid payload whose type names no operation, followed by the start of
\* something else.
UnknownType(d) == Frame(Payload("ping", EvA), d) \o <<"p">>

\* Payloads of the three known types and of an unknown one.
TypeChunks(d) ==
  {Frame(Payload("subscribe", EvA), d),
   Frame(Payload("unsubscribe", EvA), d),
   Frame(BroadcastPayload(EvA, Args1), d),
   UnknownType(d)}

\* JSON text in which a client wrote every "!" and "@" as a \u escape, so
\* that the text holds no character of a delimiter.
RECURSIVE Escaped(_)
Escaped(t) ==
  IF t = <<>> THEN <<>>
  ELSE (CASE Head(t) = "!" -> <<Backslash, "u0021">>
          [] Head(t) = "@" -> <<Backslash, "u0040">>
          [] OTHER -> <<Head(t)>>) \o Escaped(Tail(t))

\* Arguments that are the text of a delimiter.
ArgsBang == Arr(<<Str(<<"!">>)>>)
ArgsAts == Arr(<<Str(<<"@", "@", "@">>)>>)

\* A subscribe frame and broadcast frames, two of which carry the text of a
\* delimiter in their arguments, written with escapes.
EscapeChunks(d) ==
  {Frame(Payload("subscribe", EvA), d),
   Frame(BroadcastPayload(EvA, Args1), d),
   Escaped(Stringify(BroadcastPayload(EvA, ArgsBang))) \o d,
   Escaped(Stringify(BroadcastPayload(EvA, ArgsAts))) \o d}

\* The event name that is the empty string.
EvEmpty == <<>>

\* Frames whose event is the empty string, next to a subscribe frame for a.
EmptyNameChunks(d) ==
  {Frame(Payload("subscribe", EvEmpty), d),
   Frame(Payload("unsubscribe", EvEmpty), d),
   Frame(BroadcastPayload(EvEmpty, Args1), d),
   Frame(Payload("subscribe", EvA), d)}

Chunks(d) ==
  RegistryChunks(d) \cup OtherChunks(d) \cup GateChunks(d)
    \cup InvalidChunks(d) \cup FragmentChunks(d) \cup OrderChunks(d)
    \cup NameChunks(d) \cup TypeChunks(d) \cup EscapeChunks(d)
    \cup EmptyNameChunks(d)
    \cup {NullFirst(d)}

\* Texts a client may put in front of a delimiter: payloads that are valid,
\* that lack a field or carry one that is not a string, JSON that is not an
\* object, text that is not JSON, and text with symbols of a delimiter.
Pieces ==
  {Stringify(Payload("subscribe", EvA)),
   Stringify(Obj(<< <<(<<"event">>), Str(EvA)>> >>)),
   Stringify(Obj(<< <<(<<"type">>), Str(<<"subscribe">>)>> >>)),
   Stringify(Obj(<< <<(<<"type">>), Num(<<"1">>)>>,
                    <<(<<"event">>), Str(EvA)>> >>)),
   <<"null">>,
   <<"a">>,
   Stringify(BroadcastPayload(EvA, Arr(<<Str(<<"!">>)>>))),
   <<"x", "@">>,
   <<>>}

\* What a chunk may end with after its last delimiter.
Rests == {<<>>, <<"z">>, Stringify(Payload("subscribe", EvA))}

FrameSeqs == UNION {[1..n -> Pieces] : n \in 0..MaxFrames}

\* Every text of frames followed by the delimiter d.
RECURSIVE Join(_, _)
Join(frames, d) ==
  IF frames = <<>> THEN <<>>
  ELSE Head(frames) \o d \o Join(Tail(frames), d)

\* The chunks handed to a client instance used on its own.
ClientChunks(d) == {Join(frames, d) \o rest : frames \in FrameSeqs,
                                              rest \in Rests}

\* init: the delimiter is opts.delimiter when that is a string, else '@@@'.
InitDelimiter(opt) ==
  IF IsStr(opt) THEN opt.s ELSE <<"@", "@", "@">>

Delimiters == {InitDelimiter(opt) : opt \in DelimiterOpts}

(***************************************************************************)
(* The client module: decode a chunk, validate each candidate, hand the    *)
(* valid payloads to the dispatcher one after the other.                   *)
(***************************************************************************)
\* data.split(delimiter) and utils.parseJSON of every element but the last.
\* pieces is the length of the array split returned, rest its last element,
\* which payloadsStr.length -= 1 removes.
Decode(data, d) ==
  LET payloadsStr == split(data, d)
  IN [pieces |-> Len(payloadsStr),
      rest |-> IF payloadsStr = <<>> THEN <<>>
               ELSE payloadsStr[Len(payloadsStr)],
      payloads |-> [i \in 1..(Len(payloadsStr) - 1) |->
                      parseJSON(payloadsStr[i])]]

\* Decode of every chunk of the model, computed once.
Decoded ==
  [d \in Delimiters |-> [data \in Chunks(d) |-> Decode(data, d)]]

\* Variant of IsValid that does not look at the event.
IsValidTypeOnly(payload) == IsStr(GetProp(payload, <<"type">>))

\* typeof payload.type === 'string' and typeof payload.event === 'string'
IsValid(payload) ==
  /\ IsStr(GetProp(payload, <<"type">>))
  /\ IsStr(GetProp(payload, <<"event">>))

\* Variant of EachPayload that takes the payloads of a chunk last first.
RECURSIVE EachPayloadLastFirst(_, _, _, _)
EachPayloadLastFirst(st, payloads, socket, d) ==
  IF payloads = <<>> \/ st.threw THEN st
  ELSE LET payload == payloads[Len(payloads)]
           st1 == IF IsNull(payload)
                  THEN [st EXCEPT !.threw = TRUE]
                  ELSE IF ~IsValid(payload) THEN st
                  ELSE parsePayload(st, payload, socket, d)
       IN EachPayloadLastFirst(st1, SubSeq(payloads, 1, Len(payloads) - 1),
                               socket, d)

\* payloadsStr.forEach(...): stops at the first exception.
RECURSIVE EachPayload(_, _, _, _)
EachPayload(st, payloads, socket, d) ==
  IF payloads = <<>> \/ st.threw THEN st
  ELSE LET payload == Head(payloads)
           st1 == IF IsNull(payload)
                  \* payload.type of null: TypeError
                  THEN [st EXCEPT !.threw = TRUE]
                  ELSE IF ~IsValid(payload) THEN st
                  ELSE parsePayload(st, payload, socket, d)
       IN EachPayload(st1, Tail(payloads), socket, d)

\* Variant of parseData that keeps what followed the last delimiter and
\* puts it in front of the socket's next chunk.
parseDataBuffered(st, data, socket, d) ==
  EachPayload(st, Decode(dropped[socket] \o data, d).payloads, socket, d)

parseData(st, data, socket, d) ==
  LET decoded == Decoded[d][data]
  IN IF decoded.pieces = 0
     \* payloadsStr.length -= 1 on an empty array: RangeError
     THEN [st EXCEPT !.threw = TRUE]
     ELSE EachPayload(st, decoded.payloads, socket, d)

\* The same loop on a client instance used on its own: log collects the
\* values parsed and the payloads its listener received.
RECURSIVE EachCandidate(_, _)
EachCandidate(log, strs) ==
  IF strs = <<>> \/ log.threw THEN log
  ELSE LET payload == parseJSON(Head(strs))
           log1 == [log EXCEPT !.parsed = Append(@, payload)]
           log2 == IF IsNull(payload)
                   \* payload.type of null: TypeError
                   THEN [log1 EXCEPT !.threw = TRUE]
                   ELSE IF ~IsValid(payload) THEN log1
                   ELSE [log1 EXCEPT !.emitted = Append(@, payload)]
       IN EachCandidate(log2, Tail(strs))

\* Variant of Shorten that leaves the array as split returned it.
ShortenNot(xs) == xs

\* payloadsStr.length -= 1
Shorten(xs) == SubSeq(xs, 1, Len(xs) - 1)

\* parseData of a client instance used on its own.
ClientParse(data, d) ==
  LET all == split(data, d)
      log == [payloadsStr |-> Shorten(all), parsed |-> <<>>,
              emitted |-> <<>>, threw |-> FALSE]
  IN IF all = <<>>
     \* payloadsStr.length -= 1 on an empty array: RangeError
     THEN [log EXCEPT !.threw = TRUE]
     ELSE EachCandidate(log, log.payloadsStr)

\* The 'close' listener: unsubscribe from a copy of the client's list.
RECURSIVE EachSubscription(_, _, _)
EachSubscription(st, events, socket) ==
  IF events = <<>> \/ st.threw THEN st
  ELSE EachSubscription(unsubscribe(st, socket, Head(events)),
                        Tail(events), socket)

(***************************************************************************)
(* Initial state: tcpEmitter.init(opts) and handleSocket({ verifyClient }) *)
(* have run, no socket has connected.                                      *)
(***************************************************************************)
NoInput == [received |-> FALSE, data |-> <<>>]

InitWith(verifyClientOpts, delimiterOpts) ==
  /\ verifyClient \in verifyClientOpts
  /\ \E opt \in delimiterOpts : delimiter = InitDelimiter(opt)
  /\ subscriptions = [e \in {} |-> <<>>]
  /\ clientSubs = [c \in Sockets |-> <<>>]
  /\ pc = [c \in Sockets |-> "idle"]
  /\ result = [c \in Sockets |-> NoResult]
  /\ wired = [c \in Sockets |-> FALSE]
  /\ ended = [c \in Sockets |-> FALSE]
  /\ closed = [c \in Sockets |-> FALSE]
  /\ microtasks = <<>>
  /\ calls = <<>>
  /\ removed = <<>>
  /\ threw = FALSE
  /\ serverEvents = <<>>
  /\ dropped = [c \in Sockets |-> <<>>]
  /\ input = NoInput
  /\ candidates = <<>>
  /\ parsedValues = <<>>
  /\ emitted = <<>>
  /\ writeFails = [c \in Sockets |-> "no"]

Init == InitWith(VerifyClientOpts, DelimiterOpts)

(***************************************************************************)
(* The connection listener returned by handleSocket.                       *)
(***************************************************************************)
\* Variant of SkipsVerify that only recognises an omitted callback.
SkipsVerifyOmitted(vc) == IsUndefined(vc)

\* typeof verifyClient !== 'function': the callback is not consulted
SkipsVerify(vc) == ~IsFunction(vc)

\* verifyClient(socket): calling something that is not a function throws.
CallVerify(vc) ==
  IF IsFunction(vc) THEN Yields ELSE {[kind |-> "throw", v |-> Undefined]}

\* Variant of IsAllowed that accepts every truthy value.
IsAllowedTruthy(v) ==
  ~(IsUndefined(v) \/ IsNull(v) \/ v = Bool(FALSE) \/ v = Str(<<>>))

\* await verifyClient(socket) === true
IsAllowed(v) == v = Bool(TRUE)

\* Variant of Deny without the return: the listener goes on to setupSocket.
DenyFallThrough(c) ==
  /\ ended' = [ended EXCEPT ![c] = TRUE]
  /\ wired' = [wired EXCEPT ![c] = TRUE]

\* if (isConnectionAllowed === false) return socket.end()
Deny(c) ==
  /\ ended' = [ended EXCEPT ![c] = TRUE]
  /\ UNCHANGED wired

\* Variant of LoopIdle in which a listener waiting for verifyClient holds
\* the event loop.
LoopIdleBlocking ==
  /\ microtasks = <<>>
  /\ \A c \in Sockets : pc[c] # "await"

\* The event loop delivers the next event once no continuation is queued;
\* a listener suspended at its await does not hold it.
LoopIdle == microtasks = <<>>

registryUnchanged == UNCHANGED <<subscriptions, clientSubs>>
configUnchanged == UNCHANGED <<verifyClient, delimiter>>

\* Variant of Connect whose listener awaits before it looks at the outcome
\* even when verifyClient is not consulted, so that setupSocket runs in a
\* later microtask.
ConnectAwaiting(c) ==
  /\ pc[c] = "idle"
  /\ \A k \in 1..(c - 1) : pc[k] # "idle"
  /\ LoopIdle
  /\ \E y \in IF SkipsVerify(verifyClient)
               THEN {[kind |-> "return", v |-> Bool(TRUE)]}
               ELSE CallVerify(verifyClient) :
       /\ result' = [result EXCEPT ![c] = y]
       /\ IF y.kind = "throw"
          THEN /\ Deny(c)
               /\ pc' = [pc EXCEPT ![c] = "done"]
               /\ UNCHANGED microtasks
          ELSE /\ pc' = [pc EXCEPT ![c] = "await"]
               /\ microtasks' = IF y.kind = "return"
                                THEN Append(microtasks, c)
                                ELSE microtasks
               /\ UNCHANGED <<ended, wired>>
  /\ calls' = <<>>
  /\ removed' = <<>>
  /\ threw' = FALSE
  /\ serverEvents' = <<>>
  /\ registryUnchanged
  /\ configUnchanged
  /\ UNCHANGED closed
  /\ UNCHANGED dropped
  /\ UNCHANGED clientVars
  /\ UNCHANGED writeFails

\* A socket connects: the listener runs up to its first suspension.
Connect(c) ==
  /\ pc[c] = "idle"
  /\ \A k \in 1..(c - 1) : pc[k] # "idle"
  /\ LoopIdle
  /\ IF SkipsVerify(verifyClient)
     THEN \* setupSocket(socket)
          /\ wired' = [wired EXCEPT ![c] = TRUE]
          /\ pc' = [pc EXCEPT ![c] = "done"]
          /\ UNCHANGED <<result, ended, microtasks>>
     ELSE \E y \in CallVerify(verifyClient) :
          /\ result' = [result EXCEPT ![c] = y]
          /\ IF y.kind = "throw"
             THEN \* catch: isConnectionAllowed = false
                  /\ Deny(c)
                  /\ pc' = [pc EXCEPT ![c] = "done"]
                  /\ UNCHANGED microtasks
             ELSE \* await: a plain value resumes in the next microtask,
                  \* a promise when it settles
                  /\ pc' = [pc EXCEPT ![c] = "await"]
                  /\ microtasks' = IF y.kind = "return"
                                   THEN Append(microtasks, c)
                                   ELSE microtasks
                  /\ UNCHANGED <<ended, wired>>
  /\ calls' = <<>>
  /\ removed' = <<>>
  /\ threw' = FALSE
  /\ serverEvents' = <<>>
  /\ registryUnchanged
  /\ configUnchanged
  /\ UNCHANGED closed
  /\ UNCHANGED dropped
  /\ UNCHANGED clientVars
  /\ UNCHANGED writeFails

\* Variant of Settle in which the listener is not resumed when the promise
\* settles.
SettleLost(c) ==
  /\ pc[c] = "await"
  /\ result[c].kind = "promise"
  /\ LoopIdle
  /\ \E o \in Settlements : result' = [result EXCEPT ![c] = o]
  /\ calls' = <<>>
  /\ removed' = <<>>
  /\ threw' = FALSE
  /\ serverEvents' = <<>>
  /\ registryUnchanged
  /\ configUnchanged
  /\ UNCHANGED <<pc, wired, ended, closed, microtasks>>
  /\ UNCHANGED dropped
  /\ UNCHANGED clientVars
  /\ UNCHANGED writeFails

\* The promise verifyClient returned for socket c settles.
Settle(c) ==
  /\ pc[c] = "await"
  /\ result[c].kind = "promise"
  /\ LoopIdle
  /\ \E o \in Settlements : result' = [result EXCEPT ![c] = o]
  /\ microtasks' = Append(microtasks, c)
  /\ calls' = <<>>
  /\ removed' = <<>>
  /\ threw' = FALSE
  /\ serverEvents' = <<>>
  /\ registryUnchanged
  /\ configUnchanged
  /\ UNCHANGED <<pc, wired, ended, closed>>
  /\ UNCHANGED dropped
  /\ UNCHANGED clientVars
  /\ UNCHANGED writeFails

\* The listener resumes after its await and decides.
Resume ==
  /\ microtasks # <<>>
  /\ LET c == Head(microtasks)
         isConnectionAllowed == /\ result[c].kind # "reject"
                                /\ IsAllowed(result[c].v)
     IN /\ IF isConnectionAllowed
           THEN wired' = [wired EXCEPT ![c] = TRUE] /\ UNCHANGED ended
           ELSE Deny(c)
        /\ pc' = [pc EXCEPT ![c] = "done"]
  /\ microtasks' = Tail(microtasks)
  /\ calls' = <<>>
  /\ removed' = <<>>
  /\ threw' = FALSE
  /\ serverEvents' = <<>>
  /\ registryUnchanged
  /\ configUnchanged
  /\ UNCHANGED <<result, closed>>
  /\ UNCHANGED dropped
  /\ UNCHANGED clientVars
  /\ UNCHANGED writeFails

(***************************************************************************)
(* Events of a wired socket.                                               *)
(***************************************************************************)
Registry == [subscriptions |-> subscriptions, clientSubs |-> clientSubs,
             calls |-> <<>>, removed |-> <<>>, threw |-> FALSE,
             events |-> <<>>]

WithinBounds(st) ==
  \A e \in DOMAIN st.subscriptions : Len(st.subscriptions[e]) <= MaxListeners

Apply(st) ==
  /\ WithinBounds(st)
  /\ subscriptions' = st.subscriptions
  /\ clientSubs' = st.clientSubs
  /\ calls' = st.calls
  /\ removed' = st.removed
  /\ threw' = st.threw
  /\ serverEvents' = st.events

\* A failed write whose 'error' event comes later leaves that event to be
\* emitted on the socket written to.
AfterWrites(callSeq) ==
  [k \in Sockets |->
     IF \E i \in 1..Len(callSeq) : \E j \in 1..Len(callSeq[i].writes) :
          /\ callSeq[i].writes[j].to = k
          /\ callSeq[i].writes[j].failed = "event"
     THEN "emitting" ELSE writeFails[k]]

\* Variant of Data in which the 'data' listener is installed when the
\* socket connects, before verifyClient has decided.
DataUnverified(c, data) ==
  /\ pc[c] # "idle"
  /\ ~closed[c]
  /\ LoopIdle
  /\ LET st == parseData(Registry, data, c, delimiter)
     IN Apply(st) /\ writeFails' = AfterWrites(st.calls)
  /\ dropped' = [dropped EXCEPT ![c] = Decoded[delimiter][data].rest]
  /\ configUnchanged
  /\ UNCHANGED <<pc, result, wired, ended, closed, microtasks>>
  /\ UNCHANGED clientVars

\* 'data' on socket c: parseData and everything it dispatches.
Data(c, data) ==
  /\ wired[c]
  /\ ~closed[c]
  /\ LoopIdle
  /\ LET st == parseData(Registry, data, c, delimiter)
     IN Apply(st) /\ writeFails' = AfterWrites(st.calls)
  /\ dropped' = [dropped EXCEPT ![c] = Decoded[delimiter][data].rest]
  /\ configUnchanged
  /\ UNCHANGED <<pc, result, wired, ended, closed, microtasks>>
  /\ UNCHANGED clientVars

\* 'close' on socket c: the close listener, if setupSocket installed one.
Close(c) ==
  /\ pc[c] # "idle"
  /\ ~closed[c]
  /\ LoopIdle
  /\ closed' = [closed EXCEPT ![c] = TRUE]
  /\ LET st == IF wired[c]
                THEN EachSubscription(Registry, clientSubs[c], c)
                ELSE Registry
     IN Apply(st)
  /\ configUnchanged
  /\ UNCHANGED <<pc, result, wired, ended, microtasks>>
  /\ UNCHANGED dropped
  /\ UNCHANGED clientVars
  /\ UNCHANGED writeFails

\* The writable side of socket c stops working before its 'close' event:
\* from now on a write to it fails, with the 'error' event emitted either
\* inside write or after the handler that wrote.
Break(c, how) ==
  /\ wired[c]
  /\ ~closed[c]
  /\ LoopIdle
  /\ writeFails[c] = "no"
  /\ writeFails' = [writeFails EXCEPT ![c] = how]
  /\ calls' = <<>>
  /\ removed' = <<>>
  /\ threw' = FALSE
  /\ serverEvents' = <<>>
  /\ registryUnchanged
  /\ configUnchanged
  /\ UNCHANGED <<pc, result, wired, ended, closed, microtasks>>
  /\ UNCHANGED dropped
  /\ UNCHANGED clientVars

\* 'error' on socket c after a failed write: setupSocket installed no
\* listener for it, so emitting it throws the error.
ErrorEvent(c) ==
  /\ writeFails[c] = "emitting"
  /\ LoopIdle
  /\ writeFails' = [writeFails EXCEPT ![c] = "errored"]
  /\ calls' = <<>>
  /\ removed' = <<>>
  /\ threw' = TRUE
  /\ serverEvents' = <<>>
  /\ registryUnchanged
  /\ configUnchanged
  /\ UNCHANGED <<pc, result, wired, ended, closed, microtasks>>
  /\ UNCHANGED dropped
  /\ UNCHANGED clientVars

\* 'data' on a client instance used on its own, whose payload listener
\* collects what it is given.
Receive(data) ==
  /\ ~input.received
  /\ input' = [received |-> TRUE, data |-> data]
  /\ LET log == ClientParse(data, delimiter)
     IN /\ candidates' = log.payloadsStr
        /\ parsedValues' = log.parsed
        /\ emitted' = log.emitted
        /\ threw' = log.threw
  /\ configUnchanged
  /\ registryUnchanged
  /\ UNCHANGED <<pc, result, wired, ended, closed, microtasks, calls,
                 removed, serverEvents, dropped, writeFails>>

\* Every step of the server, with the few chunks of GateChunks.
Next ==
  \/ \E c \in Sockets : Connect(c)
  \/ \E c \in Sockets : Settle(c)
  \/ Resume
  \/ \E c \in Sockets, data \in GateChunks(delimiter) : Data(c, data)
  \/ \E c \in Sockets : Close(c)

Spec == Init /\ [][Next]_vars

\* A server built with default options: every socket is wired at once, and
\* clients send the chunks of RegistryChunks.
InitRegistry == InitWith({Undefined}, {Undefined})

NextRegistry ==
  \/ \E c \in Sockets : Connect(c)
  \/ \E c \in Sockets, data \in RegistryChunks(delimiter) : Data(c, data)
  \/ \E c \in Sockets : Close(c)

SpecRegistry == InitRegistry /\ [][NextRegistry]_vars

\* A server with either delimiter whose clients send the chunks of
\* FrameChunks: invalid candidates, payloads cut in two, missing delimiters.
InitFrames == InitWith({Undefined}, DelimiterOpts)

NextFrames ==
  \/ \E c \in Sockets : Connect(c)
  \/ \E c \in Sockets, data \in FrameChunks(delimiter) : Data(c, data)
  \/ \E c \in Sockets : Close(c)

SpecFrames == InitFrames /\ [][NextFrames]_vars

\* A server built with default options whose clients send the
\* transmissions of OrderChunks.
NextOrder ==
  \/ \E c \in Sockets : Connect(c)
  \/ \E c \in Sockets, data \in OrderChunks(delimiter) : Data(c, data)
  \/ \E c \in Sockets : Close(c)

SpecOrder == InitRegistry /\ [][NextOrder]_vars

\* A server built with default options whose clients name an event with
\* listeners, one without, and "constructor".
NextNames ==
  \/ \E c \in Sockets : Connect(c)
  \/ \E c \in Sockets, data \in NameChunks(delimiter) : Data(c, data)
  \/ \E c \in Sockets : Close(c)

SpecNames == InitRegistry /\ [][NextNames]_vars

\* A server built with default options, some of whose sockets stop being
\* writable while they are listeners.
WriteChunks(d) ==
  {Frame(Payload("subscribe", EvA), d),
   Frame(BroadcastPayload(EvA, Args1), d)}

WriteFailures == {"throw", "event"}

NextWrites ==
  \/ \E c \in Sockets : Connect(c)
  \/ \E c \in Sockets, data \in WriteChunks(delimiter) : Data(c, data)
  \/ \E c \in Sockets, how \in WriteFailures : Break(c, how)
  \/ \E c \in Sockets : ErrorEvent(c)
  \/ \E c \in Sockets : Close(c)

SpecWrites == InitRegistry /\ [][NextWrites]_vars

\* A server with either delimiter whose clients send payloads of every
\* type.
NextTypes ==
  \/ \E c \in Sockets : Connect(c)
  \/ \E c \in Sockets, data \in TypeChunks(delimiter) : Data(c, data)
  \/ \E c \in Sockets : Close(c)

SpecTypes == InitFrames /\ [][NextTypes]_vars

\* The connection listener alone: sockets connect, promises settle, the
\* listener resumes, sockets close.  The microtask queue is always run, and
\* every promise verifyClient returns is one that settles.
NextGate ==
  \/ \E c \in Sockets : Connect(c)
  \/ \E c \in Sockets : Settle(c)
  \/ Resume
  \/ \E c \in Sockets : Close(c)

SpecGate ==
  /\ Init
  /\ [][NextGate]_vars
  /\ WF_vars(Resume)
  /\ \A c \in Sockets : WF_vars(Settle(c))

\* A server with the default delimiter or the delimiter "!" whose clients
\* broadcast arguments that hold the text of a delimiter.
InitEscapes == InitWith({Undefined}, {Undefined, Str(<<"!">>)})

NextEscapes ==
  \/ \E c \in Sockets : Connect(c)
  \/ \E c \in Sockets, data \in EscapeChunks(delimiter) : Data(c, data)
  \/ \E c \in Sockets : Close(c)

SpecEscapes == InitEscapes /\ [][NextEscapes]_vars

\* A server built with default options whose clients use the empty string
\* as an event name.
NextEmptyName ==
  \/ \E c \in Sockets : Connect(c)
  \/ \E c \in Sockets, data \in EmptyNameChunks(delimiter) : Data(c, data)
  \/ \E c \in Sockets : Close(c)

SpecEmptyName == InitRegistry /\ [][NextEmptyName]_vars

\* A client instance used on its own receives one chunk.
NextClient == \E data \in ClientChunks(delimiter) : Receive(data)

SpecClient == InitFrames /\ [][NextClient]_vars

(***************************************************************************)
(* Properties.                                                             *)
(***************************************************************************)
EventNames == {EvA, EvB, EvProto}

\* Number of occurrences of x in xs.
RECURSIVE Count(_, _)
Count(xs, x) ==
  IF xs = <<>> THEN 0
  ELSE (IF Head(xs) = x THEN 1 ELSE 0) + Count(Tail(xs), x)

\* The listeners of event e, empty when the registry has no such key.
ListenersOf(e) ==
  IF e \in DOMAIN subscriptions THEN subscriptions[e] ELSE <<>>

\* e is in c.subscriptions
Listens(c, e) == indexOf(clientSubs[c], e) # -1

CallIndexes == 1..Len(calls)

\* C1 (registry symmetry, I1): for every connection c and event e, e is in
\* c.subscriptions if and only if c is in the registry's list for e.
C1_RegistrySymmetry ==
  \A c \in Sockets, e \in EventNames :
    Listens(c, e) <=> c \in Range(ListenersOf(e))

\* C2 (idempotent subscribe, P1): no list of the registry contains the same
\* connection twice, however often the connection subscribed.
C2_NoDuplicateListener ==
  \A e \in DOMAIN subscriptions, c \in Sockets :
    Count(subscriptions[e], c) <= 1

\* C3 (disconnect cleanup, P5): after a connection has closed, no list of
\* the registry contains it.
C3_ClosedNotListed ==
  \A c \in Sockets :
    closed[c] => \A e \in DOMAIN subscriptions : Count(subscriptions[e], c) = 0

C5_SenderExcluded ==
  \A k \in CallIndexes :
    LET call == calls[k]
        written == {call.writes[i].to : i \in 1..Len(call.writes)}
    IN /\ call.socket \notin written
       /\ Range(call.listeners) \ {call.socket} \subseteq written

\* A sender that listens to the event broadcast to it and another listener
\* was written to.
C5_Witness ==
  \E k \in CallIndexes :
    /\ calls[k].socket \in Range(calls[k].listeners)
    /\ calls[k].writes # <<>>

\* C6 (exactly-once fan-out): in one broadcast, every listener of the event
\* other than the sender is written exactly one frame.
C6_ExactlyOnce ==
  \A k \in CallIndexes :
    \A c \in Range(calls[k].listeners) \ {calls[k].socket} :
      Cardinality({i \in 1..Len(calls[k].writes) :
                     calls[k].writes[i].to = c}) = 1

\* C7: a broadcast to event e writes only to connections that are
\* subscribed to e at that moment: none that listens to other events only,
\* none that has unsubscribed from e.
C7_OnlySubscribers ==
  \A k \in CallIndexes :
    \A i \in 1..Len(calls[k].writes) :
      calls[k].writes[i].to \in calls[k].subscribers

\* The text without the delimiter it ends with, parsed.
Unframed(text) ==
  JSONParse(SubSeq(text, 1, Len(text) - Len(delimiter)))

\* C8 (outbound frame shape): every text written to a client is the JSON of
\* an object with exactly the fields event and args, equal to those of the
\* broadcast frame that caused it, followed by the delimiter.
C8_OutboundShape ==
  \A k \in CallIndexes :
    \A i \in 1..Len(calls[k].writes) :
      LET text == calls[k].writes[i].text
          parsed == Unframed(text)
      IN /\ Len(text) >= Len(delimiter)
         /\ SubSeq(text, Len(text) - Len(delimiter) + 1, Len(text))
              = delimiter
         /\ parsed.ok
         /\ IsObj(parsed.v)
         /\ {parsed.v.o[j][1] : j \in 1..Len(parsed.v.o)}
              = {<<"event">>, <<"args">>}
         /\ GetProp(parsed.v, <<"event">>) = Str(calls[k].event)
         /\ GetProp(parsed.v, <<"args">>) = calls[k].args

\* The listener has decided about socket c.
Decided(c) == pc[c] = "done"
Admitted(c) == Decided(c) /\ wired[c] /\ ~ended[c]
Rejected(c) == Decided(c) /\ ended[c] /\ ~wired[c]

\* verifyClient returned exactly true, or a promise resolved with it.
YieldedTrue(c) ==
  /\ result[c].kind \in {"return", "resolve"}
  /\ result[c].v = Bool(TRUE)

\* C9 (admission decision): with a verifyClient function, a connection is
\* admitted if and only if the function returned exactly true or a promise
\* resolved with exactly true; every other outcome rejects it.
C9_AdmissionDecision ==
  IsFunction(verifyClient) =>
    \A c \in Sockets :
      Decided(c) => /\ Admitted(c) <=> YieldedTrue(c)
                    /\ Rejected(c) <=> ~YieldedTrue(c)

\* One socket was admitted by a promise resolved with true, the other was
\* rejected for a truthy value that is not true.
C9_Witness ==
  /\ Admitted(1)
  /\ result[1] = [kind |-> "resolve", v |-> Bool(TRUE)]
  /\ Rejected(2)
  /\ result[2] = [kind |-> "return", v |-> Str(<<"x">>)]

\* C10 (default allow): when verifyClient is omitted or is not a function,
\* every accepted connection is admitted and wired.
C10_DefaultAllow ==
  ~IsFunction(verifyClient) =>
    \A c \in Sockets : pc[c] # "idle" => Admitted(c)

\* verifyClient is a string, both sockets were wired and the frame of one
\* reached the registry.
C10_Witness ==
  /\ verifyClient = Str(<<"x">>)
  /\ Admitted(1)
  /\ Admitted(2)
  /\ 2 \in Range(ListenersOf(EvA))

\* The sockets a broadcast wrote to.
WrittenTo(call) == {call.writes[i].to : i \in 1..Len(call.writes)}

\* C11 (rejected connections are invisible): a socket the server ended at
\* the gate is never set up, so it is in no list of the registry, has no
\* subscription, none of its frames is dispatched, no broadcast writes to it
\* and no event emitted to the server refers to it.
C11_RejectedInvisible ==
  \A c \in Sockets :
    ended[c] =>
      /\ ~wired[c]
      /\ clientSubs[c] = <<>>
      /\ dropped[c] = <<>>
      /\ \A e \in DOMAIN subscriptions : Count(subscriptions[e], c) = 0
      /\ \A k \in CallIndexes :
           calls[k].socket # c /\ c \notin WrittenTo(calls[k])
      /\ \A i \in 1..Len(serverEvents) : serverEvents[i].socket # c

\* Socket 1 was rejected for a value that is not true and has closed; socket
\* 2 was admitted, subscribed and broadcast.
C11_Witness ==
  /\ Rejected(1)
  /\ result[1].v = Str(<<"x">>)
  /\ closed[1]
  /\ Admitted(2)
  /\ \E k \in CallIndexes : calls[k].socket = 2

\* verifyClient returned a promise for socket c that has not settled.
Pending(c) == pc[c] = "await" /\ result[c].kind = "promise"

\* The subscribe frame for event a under each delimiter.
SubscribeChunk ==
  [d \in Delimiters |-> Frame(Payload("subscribe", EvA), d)]

\* C12 (admission does not block): while a socket waits for its unsettled
\* promise it has no entry in the registry, the next socket can connect,
\* another waiting socket can have its promise settled, and a subscribe
\* frame of an admitted socket can be processed (as long as the list it
\* joins is within the length explored).
C12_AdmissionDoesNotBlock ==
  \A c \in Sockets :
    (Pending(c) /\ microtasks = <<>>) =>
      /\ ~wired[c]
      /\ clientSubs[c] = <<>>
      /\ \A e \in DOMAIN subscriptions : Count(subscriptions[e], c) = 0
      /\ \A k \in Sockets \ {c} :
           /\ (pc[k] = "idle" /\ \A j \in 1..(k - 1) : pc[j] # "idle")
                => ENABLED Connect(k)
           /\ Pending(k) => ENABLED Settle(k)
           /\ (wired[k] /\ ~closed[k]
                 /\ Len(ListenersOf(EvA)) < MaxListeners)
                => ENABLED Data(k, SubscribeChunk[delimiter])

\* Socket 1 still waits for its promise; socket 2, which connected later,
\* was admitted and its subscribe frame reached the registry.
C12_Witness ==
  /\ Pending(1)
  /\ Admitted(2)
  /\ ListenersOf(EvA) = <<2>>

\* The sockets written to by a broadcast, in the order of the writes.
Recipients(call) == [i \in 1..Len(call.writes) |-> call.writes[i].to]

\* C13 (registry operations are serialized): every handler runs to its end
\* before the next event is taken, so the list a broadcast read is the list
\* the registry holds when the broadcast is over, whatever sockets
\* subscribed, unsubscribed or closed before it, and its writes go to that
\* one list without the sender, in the order of the list.
C13_Serialized ==
  \A k \in CallIndexes :
    /\ calls[k].listeners = ListenersOf(calls[k].event)
    /\ Recipients(calls[k])
         = SelectSeq(ListenersOf(calls[k].event),
                     LAMBDA l : l # calls[k].socket)

\* Both sockets listen to event a, socket 2 first, and socket 2 to event b
\* too; socket 1 broadcast to event a and exactly socket 2 was written.
C13_Witness ==
  \E k \in CallIndexes :
    /\ calls[k].socket = 1
    /\ calls[k].listeners = <<2, 1>>
    /\ Recipients(calls[k]) = <<2>>
    /\ Listens(2, EvB)

\* The events of one name the last handler emitted to the server, each as
\* <<socket, event>>.
Notified(name) ==
  LET es == SelectSeq(serverEvents, LAMBDA ev : ev.name = name)
  IN [i \in 1..Len(es) |-> <<es[i].socket, es[i].event>>]

\* C14 (subscribed notification): a step in which socket c becomes
\* subscribed to event e emits exactly one subscribe event for (c, e) to the
\* server, and a step in which it does not emits none.
C14_SubscribedNotified ==
  [][\A c \in Sockets, e \in EventNames :
       Count(Notified("subscribe")', <<c, e>>)
         = IF ~Listens(c, e) /\ Listens(c, e)' THEN 1 ELSE 0]_vars

\* C15 (broadcast notification): every broadcast of the last handler emitted
\* exactly one broadcast event to the server, with its sender, event and
\* arguments, however many listeners were written to.
C15_BroadcastNotified ==
  LET es == SelectSeq(serverEvents, LAMBDA ev : ev.name = "broadcast")
  IN /\ Len(es) = Len(calls)
     /\ \A k \in CallIndexes :
          /\ es[k].socket = calls[k].socket
          /\ es[k].event = calls[k].event
          /\ es[k].args = calls[k].args

\* C16 (unsubscribed notification): the unsubscribe events the last handler
\* emitted to the server are exactly its removals from the registry, one
\* event for each, in order, whether an unsubscribe frame or a close
\* caused them.
C16_UnsubscribedNotified ==
  Notified("unsubscribe") = removed

\* C17 (invalid frames are routing-invisible): a chunk whose only candidate
\* does not parse, or lacks a string type or a string event, changes no
\* list of the registry and no socket's subscriptions, causes no write and
\* no event, raises nothing and leaves the socket as it was.
C17_InvalidInvisible ==
  [][\A c \in Sockets, data \in InvalidChunks(delimiter) :
       Data(c, data) =>
         /\ UNCHANGED <<subscriptions, clientSubs, wired, ended, closed>>
         /\ calls' = <<>>
         /\ serverEvents' = <<>>
         /\ ~threw']_vars

\* v is an object whose property k is a string.
HasStringField(v, k) ==
  /\ IsObj(v)
  /\ \E i \in 1..Len(v.o) : v.o[i][1] = k /\ IsStr(v.o[i][2])

\* C18 (validity predicate): of the values parsed from a chunk, the payload
\* listener is given exactly those that have a string type and a string
\* event, in order.
C18_ValidityPredicate ==
  input.received =>
    emitted = SelectSeq(parsedValues,
                        LAMBDA v : /\ HasStringField(v, <<"type">>)
                                   /\ HasStringField(v, <<"event">>))

\* Two candidates were parsed, one without an event and one valid, and only
\* the valid one reached the listener.
C18_Witness ==
  /\ input.received
  /\ Len(parsedValues) = 2
  /\ parsedValues[1] = Obj(<< <<(<<"type">>), Str(<<"subscribe">>)>> >>)
  /\ emitted = <<Payload("subscribe", EvA)>>

\* The chunk made of each sequence of payloads under each delimiter.
Joined ==
  [d \in Delimiters |-> [frames \in FrameSeqs |-> Join(frames, d)]]

\* d occurs in text.
Occurs(text, d) == \E i \in 1..Len(text) : OccursAt(text, d, i)

\* C19 (framing, P6) as stated: a chunk of n >= 1 payloads, each followed by
\* the delimiter, decodes to exactly those payloads in order, and a chunk
\* without any delimiter decodes to nothing.
C19_Framing ==
  input.received =>
    /\ \A frames \in FrameSeqs \ {<<>>} :
         input.data = Joined[delimiter][frames] => candidates = frames
    /\ ~Occurs(input.data, delimiter) => candidates = <<>>

\* In text followed by d, d occurs at the end only.
Clean(text, d) ==
  \A i \in 1..Len(text) : ~OccursAt(text \o d, d, i)

\* C19 amended: the same for a delimiter that is not empty and payloads in
\* which, followed by the delimiter, the delimiter occurs at the end only.
C19_FramingClean ==
  (input.received /\ delimiter # <<>>) =>
    /\ \A frames \in FrameSeqs \ {<<>>} :
         /\ input.data = Joined[delimiter][frames]
         /\ \A i \in 1..Len(frames) : Clean(frames[i], delimiter)
         => candidates = frames
    /\ ~Occurs(input.data, delimiter) => candidates = <<>>

\* A chunk of two payloads, the second of them invalid, was decoded into
\* both.
C19_Witness ==
  /\ input.received
  /\ input.data = Join(<<Stringify(Payload("subscribe", EvA)), <<"a">>>>,
                       delimiter)
  /\ candidates = <<Stringify(Payload("subscribe", EvA)), <<"a">>>>

\* C20 (no buffering across chunks): the subscribe payload for event b only
\* ever arrives cut in two, its head at the end of one chunk and its tail at
\* the start of another, so it is never applied: b has no entry in the
\* registry and no socket is subscribed to it.
C20_NoBuffering ==
  /\ EvB \notin DOMAIN subscriptions
  /\ \A c \in Sockets : ~Listens(c, EvB)

\* Socket 1 sent the chunk with the head, whose complete payload was
\* applied, and its last chunk was the one with the tail.
C20_Witness ==
  /\ Listens(1, EvA)
  /\ dropped[1] = <<"z">>
  /\ ~threw

\* C21 as stated: an empty chunk, and a chunk that is exactly the
\* delimiter, each give an empty sequence of candidate strings.
C21_EdgeChunks ==
  (input.received /\ input.data \in {<<>>, delimiter})
    => candidates = <<>>

\* C21, amended: with a non-empty delimiter, an empty chunk gives no
\* candidate string, a chunk that is exactly the delimiter gives the one
\* candidate "" (the text before the delimiter), and in both cases no
\* payload is handed on and no error is raised.
C21_EdgeChunksDropped ==
  (input.received /\ delimiter # <<>>)
    => /\ input.data = <<>>
            => candidates = <<>> /\ emitted = <<>> /\ ~threw
       /\ input.data = delimiter
            => candidates = << <<>> >> /\ emitted = <<>> /\ ~threw

\* A chunk that is exactly the delimiter has been decoded into one empty
\* candidate, which parsed to the empty object and was not handed on.
C21_Witness ==
  /\ input.received
  /\ delimiter # <<>>
  /\ input.data = delimiter
  /\ candidates = << <<>> >>
  /\ parsedValues = <<Obj(<<>>)>>
  /\ emitted = <<>>

\* The texts written to socket r by a sequence of broadcast calls, in the
\* order of the writes.
RECURSIVE TextsFor(_, _)
TextsFor(callSeq, r) ==
  IF callSeq = <<>> THEN <<>>
  ELSE LET mine == SelectSeq(Head(callSeq).writes, LAMBDA w : w.to = r)
       IN [i \in 1..Len(mine) |-> mine[i].text] \o TextsFor(Tail(callSeq), r)

\* The transmissions of OrderChunks under each delimiter.
OrderChunk ==
  [d \in Delimiters |->
     [subThenUnsub |-> SubThenUnsub(d), unsubThenSub |-> UnsubThenSub(d),
      threeOperations |-> ThreeOperations(d),
      twoBroadcasts |-> TwoBroadcasts(d),
      first |-> OutboundFrame(EvA, Args1, d),
      second |-> OutboundFrame(EvA, Args2, d)]]

\* C22 (per-connection ordering): the payloads of one transmission are
\* applied in the order they were sent, each one on the registry the one
\* before it left.  subscribe a then unsubscribe a leaves the sender
\* without a; unsubscribe a then subscribe a leaves it with a; subscribe a,
\* unsubscribe b, broadcast a leaves it with a, without b, and the
\* broadcast read the listeners of a with the sender already among them;
\* of two broadcasts sent in order every recipient is written the frame of
\* the first before the frame of the second.
C22_InOrder ==
  [][\A c \in Sockets :
       /\ Data(c, OrderChunk[delimiter].subThenUnsub)
            => ~threw' /\ indexOf(clientSubs'[c], EvA) = -1
       /\ Data(c, OrderChunk[delimiter].unsubThenSub)
            => /\ ~threw'
               /\ indexOf(clientSubs'[c], EvA) # -1
               /\ EvA \in DOMAIN subscriptions'
               /\ c \in Range(subscriptions'[EvA])
       /\ Data(c, OrderChunk[delimiter].threeOperations)
            => /\ ~threw'
               /\ indexOf(clientSubs'[c], EvA) # -1
               /\ indexOf(clientSubs'[c], EvB) = -1
               /\ Len(calls') = 1
               /\ calls'[1].socket = c
               /\ calls'[1].event = EvA
               /\ calls'[1].listeners = Append(ListenersOf(EvA), c)
               /\ subscriptions'[EvA] = calls'[1].listeners
       /\ Data(c, OrderChunk[delimiter].twoBroadcasts)
            => /\ ~threw'
               /\ \A r \in Sockets \ {c} :
                    LET k == Count(ListenersOf(EvA), r)
                    IN TextsFor(calls', r) =
                         [i \in 1..(2 * k) |->
                            IF i <= k
                            THEN OrderChunk[delimiter].first
                            ELSE OrderChunk[delimiter].second]]_vars

\* Two broadcasts of one transmission have been written to a listener of
\* a, the one sent first before the one sent second.
C22_Witness ==
  /\ Len(calls) = 2
  /\ calls[1].args = Args1
  /\ calls[2].args = Args2
  /\ \E r \in Sockets :
       TextsFor(calls, r) = <<OutboundFrame(EvA, Args1, delimiter),
                              OutboundFrame(EvA, Args2, delimiter)>>

\* C23 (unsubscribe is idempotent): an unsubscribe for an event that is not
\* in the socket's own list of subscriptions, whether or not the registry
\* has an entry for the event, leaves the registry and the socket's list as
\* they were.
C23_UnsubscribeIdempotent ==
  [][\A c \in Sockets, e \in {EvA, EvB} :
       (/\ indexOf(clientSubs[c], e) = -1
        /\ Data(c, Frame(Payload("unsubscribe", e), delimiter)))
         => subscriptions' = subscriptions /\ clientSubs' = clientSubs]_vars

\* C24 (broadcast without subscribers): a broadcast for an event that no
\* socket is subscribed to writes to no socket, leaves the registry and
\* every socket's list as they were, and raises no error.
C24_SilentNoOp ==
  [][\A c \in Sockets, e \in EventNames :
       (/\ e \notin DOMAIN subscriptions
        /\ \A k \in Sockets : indexOf(clientSubs[k], e) = -1
        /\ Data(c, Frame(BroadcastPayload(e, Args1), delimiter)))
         => /\ calls' = <<>>
            /\ subscriptions' = subscriptions
            /\ clientSubs' = clientSubs
            /\ ~threw']_vars

\* C26 (empty delimiter): a server whose delimiter option is the empty
\* string does not come to run: no socket is ever set up to have its chunks
\* decoded with an empty delimiter.
C26_EmptyDelimiterRejected ==
  \A c \in Sockets : wired[c] => delimiter # <<>>

\* C27 (default args): a broadcast payload without an args field is a
\* broadcast with the empty sequence as args: the handler is called with
\* [] and each listener is written the frame of {event, args: []}.
C27_ArgsDefault ==
  [][\A c \in Sockets :
       Data(c, Frame(Payload("broadcast", EvA), delimiter))
         => \A k \in 1..Len(calls') :
              /\ calls'[k].args = Arr(<<>>)
              /\ \A i \in 1..Len(calls'[k].writes) :
                   calls'[k].writes[i].text =
                     OutboundFrame(EvA, Arr(<<>>), delimiter)]_vars

\* The broadcast frame with args [1] for each event under each delimiter.
BroadcastChunk ==
  [d \in Delimiters |->
     [e \in EventNames |-> Frame(BroadcastPayload(e, Args1), d)]]

\* C28 (frame condition of broadcast): a broadcast, whatever its event,
\* leaves the registry and every socket's list of subscriptions as they
\* were, so a sender that is a listener of the event stays one; and a
\* listener of a is written to by a broadcast for a that another socket
\* makes, whether or not it has broadcast before.
C28_BroadcastFrame ==
  [][\A k \in Sockets, e \in EventNames :
       Data(k, BroadcastChunk[delimiter][e])
         => /\ subscriptions' = subscriptions
            /\ clientSubs' = clientSubs
            /\ (e = EvA /\ EvA \in DOMAIN subscriptions)
                 => /\ Len(calls') = 1
                    /\ \A c \in Range(subscriptions[EvA]) \ {k} :
                         c \in WrittenTo(calls'[1])]_vars

\* Socket 1, a listener of a by the registry and by its own list, has just
\* broadcast for a: socket 2 was written to and socket 1 is still a listener.
C28_Witness ==
  /\ Len(calls) = 1
  /\ calls[1].socket = 1
  /\ calls[1].event = EvA
  /\ WrittenTo(calls[1]) = {2}
  /\ EvA \in DOMAIN subscriptions
  /\ 1 \in Range(subscriptions[EvA])
  /\ indexOf(clientSubs[1], EvA) # -1

\* C30 (no error on any candidate): whatever the candidates of a chunk are,
\* text that is not JSON and JSON values that are not objects included, no
\* error is raised, every candidate is parsed and checked, and the valid
\* ones are handed on in their order.
C30_NoErrorOnGarbage ==
  (input.received /\ candidates # <<>>)
    => /\ ~threw
       /\ Len(parsedValues) = Len(candidates)
       /\ emitted = SelectSeq([i \in 1..Len(candidates) |->
                                 parseJSON(candidates[i])],
                              LAMBDA payload : IsValid(payload))

\* C29 (valid frames are dispatched): a chunk that holds a complete, valid
\* subscribe payload for event a, received on a socket that was admitted,
\* leaves that socket among the listeners of a.
C29_ValidDispatched ==
  [][\A c \in Sockets :
       \A data \in {NullFirst(delimiter),
                    Frame(Payload("subscribe", EvA), delimiter)
                      \o HeadOf(Stringify(Payload("subscribe", EvB)))} :
         (delimiter # <<>> /\ Data(c, data))
           => /\ EvA \in DOMAIN subscriptions'
              /\ c \in Range(subscriptions'[EvA])]_vars

\* C25 (write-failure isolation): when a write of a broadcast fails, the
\* listeners after it are still written to, each listener other than the
\* sender being written to once for each of its entries and no more, and
\* no error leaves a handler, neither the one that wrote nor a later one.
C25_WriteIsolation ==
  [][/\ \A c \in Sockets :
          (/\ EvA \in DOMAIN subscriptions
           /\ Data(c, Frame(BroadcastPayload(EvA, Args1), delimiter)))
            => /\ Len(calls') = 1
               /\ \A r \in Sockets \ {c} :
                    Count(Recipients(calls'[1]), r)
                      = Count(subscriptions[EvA], r)
     /\ ~threw']_vars

\* C31 (no write after close): a broadcast writes to no socket whose
\* 'close' event has been handled.
C31_NoWriteToClosed ==
  \A k \in CallIndexes : \A c \in WrittenTo(calls[k]) : ~closed[c]

\* The chunks of NameChunks under each delimiter.
NameChunkSet == [d \in Delimiters |-> NameChunks(d)]

\* The number of entries in all the lists of a registry.
RECURSIVE Entries(_)
Entries(subs) ==
  IF DOMAIN subs = {} THEN 0
  ELSE LET e == CHOOSE x \in DOMAIN subs : TRUE
       IN Len(subs[e]) + Entries([x \in DOMAIN subs \ {e} |-> subs[x]])

\* The number of names in all the sockets' own lists.
Names(lists) ==
  LET Sum[c \in 0..MaxSockets] ==
        IF c = 0 THEN 0 ELSE Len(lists[c]) + Sum[c - 1]
  IN Sum[MaxSockets]

\* C32 (one effect per frame): whatever the registry holds, a chunk of one
\* payload received on a socket that is set up and open makes at most one
\* broadcast call, changes the registry by at most one entry and the
\* sockets' own lists by at most one name, and changes neither the
\* registry nor a list when it makes a broadcast call.
C32_OneEffect ==
  \A c \in Sockets, data \in NameChunkSet[delimiter] :
    (wired[c] /\ ~closed[c])
      => LET st == parseData(Registry, data, c, delimiter)
         IN /\ Len(st.calls) <= 1
            /\ Entries(st.subscriptions) - Entries(subscriptions)
                 \in {-1, 0, 1}
            /\ Names(st.clientSubs) - Names(clientSubs) \in {-1, 0, 1}
            /\ st.calls # <<>>
                 => st.subscriptions = subscriptions
                    /\ st.clientSubs = clientSubs

\* A broadcast has just been made to a listener, and the registry holds
\* what it held when the call read it.
C32_Witness ==
  /\ Len(calls) = 1
  /\ calls[1].writes # <<>>
  /\ calls[1].event \in DOMAIN subscriptions
  /\ subscriptions[calls[1].event] = calls[1].listeners
  /\ removed = <<>>

\* The chunk UnknownType under each delimiter.
UnknownTypeChunk == [d \in Delimiters |-> UnknownType(d)]

\* C33 (unknown type): whatever the registry holds, a valid payload whose
\* type is a string other than subscribe, unsubscribe and broadcast,
\* received on a socket that is set up and open, leaves the registry and
\* the sockets' lists as they were, writes to no socket, emits nothing and
\* raises no error.
C33_UnknownTypeDiscarded ==
  \A c \in Sockets :
    (wired[c] /\ ~closed[c])
      => LET st == parseData(Registry, UnknownTypeChunk[delimiter], c,
                             delimiter)
         IN /\ st.subscriptions = subscriptions
            /\ st.clientSubs = clientSubs
            /\ st.calls = <<>>
            /\ st.events = <<>>
            /\ ~st.threw

\* Socket 2 has just sent the payload of unknown type while socket 1 is a
\* listener of a: nothing was written and socket 2 is not a listener.
C33_Witness ==
  /\ delimiter # <<>>
  /\ dropped[2] = <<"p">>
  /\ Listens(1, EvA)
  /\ ~Listens(2, EvA)
  /\ calls = <<>>
  /\ ~threw

\* The listeners of event e in registry subs other than socket c, in order.
OthersOf(subs, e, c) ==
  IF e \in DOMAIN subs THEN SelectSeq(subs[e], LAMBDA x : x # c) ELSE <<>>

\* Going from the current registry to st left every socket other than c
\* with its own list, and with its entries in every event's list of
\* listeners, in the same order.
OthersKept(st, c) ==
  /\ \A k \in Sockets \ {c} : st.clientSubs[k] = clientSubs[k]
  /\ \A e \in DOMAIN subscriptions \cup DOMAIN st.subscriptions :
       OthersOf(st.subscriptions, e, c) = OthersOf(subscriptions, e, c)

\* Going from the current registry to st left socket c's membership in
\* every event other than e as it was.
OwnKept(st, c, e) ==
  /\ \A other \in Range(clientSubs[c]) \cup Range(st.clientSubs[c]) :
       other # e
         => (indexOf(st.clientSubs[c], other) # -1) <=> Listens(c, other)
  /\ \A other \in (DOMAIN subscriptions \cup DOMAIN st.subscriptions) \ {e} :
       Count(OthersOf(st.subscriptions, other, 0), c)
         = Count(ListenersOf(other), c)

C35_AdmissionDecides ==
  /\ \A c \in Sockets :
       (pc[c] # "idle") ~> (Decided(c) /\ (Admitted(c) # Rejected(c)))
  /\ [][\A c \in Sockets :
          Decided(c) => /\ Decided(c)'
                        /\ wired'[c] = wired[c]
                        /\ ended'[c] = ended[c]]_vars

\* Socket 1 was admitted and socket 2 rejected, each after the promise
\* verifyClient returned for it had settled.
C35_Witness ==
  /\ Admitted(1)
  /\ Rejected(2)
  /\ result[1].kind = "resolve"
  /\ result[2].kind \in {"resolve", "reject"}

\* Socket c is in no list of the registry, has no subscription, sent none
\* of the broadcasts of the last step and no event of the last step refers
\* to it.
Absent(c) ==
  /\ clientSubs[c] = <<>>
  /\ \A e \in DOMAIN subscriptions : c \notin Range(subscriptions[e])
  /\ \A k \in CallIndexes : calls[k].socket # c
  /\ \A i \in 1..Len(serverEvents) : serverEvents[i].socket # c

\* C36 (only admitted connections have effect): a socket that is not set up
\* is absent from the registry, the broadcasts and the server's events; a
\* step changes a socket's subscriptions, broadcasts for it or emits an
\* event about it only if the socket was set up before the step; and a
\* socket that has closed while absent stays absent, whatever verifyClient
\* yields for it afterwards.
C36_OnlyAdmittedAct ==
  /\ [](\A c \in Sockets : ~wired[c] => Absent(c))
  /\ [][\A c \in Sockets :
          /\ (\/ clientSubs'[c] # clientSubs[c]
              \/ \E k \in 1..Len(calls') : calls'[k].socket = c
              \/ \E i \in 1..Len(serverEvents') : serverEvents'[i].socket = c)
               => wired[c]
          /\ (closed[c] /\ Absent(c)) => Absent(c)']_vars

\* Socket 1 closed while it waited for verifyClient, whose promise has since
\* resolved with true; socket 2 was admitted and has subscribed.
C36_Witness ==
  /\ pc[1] = "await"
  /\ closed[1]
  /\ result[1] = [kind |-> "resolve", v |-> Bool(TRUE)]
  /\ Admitted(2)
  /\ Listens(2, EvA)

\* The payloads a receiver obtains from a text by the framing rule of
\* parseData: split on the delimiter, drop the last element, parse the rest.
Reframed(text) ==
  LET payloadsStr == split(text, delimiter)
  IN [i \in 1..(Len(payloadsStr) - 1) |-> parseJSON(payloadsStr[i])]

\* C37 (outbound round trip): the text of every write of a broadcast, split
\* on the delimiter with the last element dropped, is exactly one payload,
\* whose event and args are those of the broadcast.
C37_OutboundRoundTrip ==
  \A k \in CallIndexes :
    \A i \in 1..Len(calls[k].writes) :
      LET payloads == Reframed(calls[k].writes[i].text)
      IN /\ Len(payloads) = 1
         /\ GetProp(payloads[1], <<"event">>) = Str(calls[k].event)
         /\ GetProp(payloads[1], <<"args">>) = calls[k].args

\* C38 (entries exist only through subscription): before any socket has
\* connected the registry has no key; every key of the registry is an event
\* some socket is subscribed to; and for every event name that is not a key,
\* constructor included, a subscribe of a socket that is set up creates the
\* list with that socket in it, while a broadcast and an unsubscribe change
\* nothing and throw nothing.
C38_EntriesThroughSubscription ==
  /\ (\A c \in Sockets : pc[c] = "idle") => DOMAIN subscriptions = {}
  /\ \A e \in DOMAIN subscriptions : \E c \in Sockets : Listens(c, e)
  /\ \A c \in Sockets, e \in EventNames :
       (wired[c] /\ ~closed[c] /\ e \notin DOMAIN subscriptions
          /\ \A k \in Sockets : ~Listens(k, e))
         => /\ subscribe(Registry, c, e).subscriptions
                 = SetKey(subscriptions, e, <<c>>)
            /\ ~subscribe(Registry, c, e).threw
            /\ broadcast(Registry, c, e, Args1, delimiter) = Registry
            /\ unsubscribe(Registry, c, e) = Registry

\* C39 (wired within the accept): when verifyClient is not a function, the
\* step in which a socket connects leaves it set up with nothing of the
\* listener left to run; and as long as such a socket is open, a subscribe
\* frame for a delivered to it is taken by parseData (while the list it
\* joins is within the length explored) and, the delimiter not being empty,
\* makes the socket a listener of a.
C39_WiredAtAccept ==
  /\ [][\A c \in Sockets :
          (SkipsVerify(verifyClient) /\ pc[c] = "idle" /\ pc'[c] # "idle")
            => wired'[c] /\ pc'[c] = "done" /\ microtasks' = <<>>]_vars
  /\ [](\A c \in Sockets :
          (SkipsVerify(verifyClient) /\ pc[c] # "idle" /\ ~closed[c])
            => /\ wired[c]
               /\ Len(ListenersOf(EvA)) < MaxListeners
                    => ENABLED Data(c, SubscribeChunk[delimiter])
               /\ delimiter # <<>>
                    => LET st == parseData(Registry, SubscribeChunk[delimiter],
                                           c, delimiter)
                       IN c \in Range(st.subscriptions[EvA]))

\* No verifyClient was given; socket 2, the last to connect, subscribed
\* before socket 1 did.
C39_Witness ==
  /\ IsUndefined(verifyClient)
  /\ delimiter # <<>>
  /\ pc = [c \in Sockets |-> IF c <= 2 THEN "done" ELSE "idle"]
  /\ ListenersOf(EvA) = <<2, 1>>
  /\ result = [c \in Sockets |-> NoResult]

\* C40 (event names are not empty): the empty string is never a key of the
\* registry, nor a name in a socket's own list of subscriptions.
C40_NoEmptyName ==
  /\ EvEmpty \notin DOMAIN subscriptions
  /\ \A c \in Sockets : ~Listens(c, EvEmpty)

====
